---- MODULE Spec2Model ----
(***************************************************************************)
(* Double pendulum (src/main.c): the Lagrangian evaluator, the RK4 step,   *)
(* the energy diagnostics, the trail ring buffer and the tick loop of      *)
(* main().                                                                 *)
(*                                                                         *)
(* Numbers.  The program computes in long double.  Here a real value x is  *)
(* the integer x*SCALE (fixed point), every product and quotient is        *)
(* rounded toward zero, and sinl/cosl are a range reduction followed by a  *)
(* polynomial.  Like floating point, this arithmetic is not associative,   *)
(* so every expression is evaluated in the order the C source gives it.    *)
(*                                                                         *)
(* Memory.  A C function that receives pointers is an operator from the    *)
(* pointed-to objects before the call to the same objects after the call,  *)
(* so that what a function writes (and what it leaves alone) is visible.   *)
(*                                                                         *)
(* Evaluation.  C evaluates an argument or a local once.  A TLA+ operator  *)
(* argument stands for its expression wherever it is used, so an operator  *)
(* that uses a computed value several times first binds it as the argument *)
(* of a function (MulAt[p \in Int, q \in Int] for Mul(x, y), and so on).   *)
(***************************************************************************)
EXTENDS Integers, Sequences, FiniteSets, TLC

VARIABLES
  a1, b1,      \* Body a1, b1 of main()
  t1,          \* Trail t1 of main()
  i,           \* int i: iterations completed
  quit,        \* int quit
  pc,          \* "loop" while main() is in its while loop, "done" after it
  calls,       \* history: the evaluator calls of the last updatePositions
  trace,       \* history: the functions entered in the last iteration
  appended,    \* history: every point passed to appendToTrail, in order
  written,     \* history: the slots of points[] an append has written
  start,       \* history: a1 and b1 as constructed
  vec_y, vec_k, \* the y[] and k[] a directly driven lagrange call receives
  ret,         \* the value the last directly driven diagnostic returned
  last,        \* the operation that acted last
  a2, b2, i2   \* a second run of the integrator (Body a2, b2 of main())

vars == << a1, b1, t1, i, quit, pc, calls, trace, appended, written, start,
           vec_y, vec_k, ret, last, a2, b2, i2 >>

mainVars == << a1, b1, t1, i, quit, pc, calls, trace, appended, written, start >>

unitVars == << vec_y, vec_k, ret >>

pairVars == << a2, b2, i2 >>

(* ------------------------------------------------------------------ *)
(* long double as fixed point                                          *)
(* ------------------------------------------------------------------ *)

\* Units per 1.0 (the resolution of the modelled long double).
SCALE == 10000

Abs(x) == IF x < 0 THEN -x ELSE x

Sgn(x) == IF x < 0 THEN -1 ELSE 1

MIN(X, Y) == IF X < Y THEN X ELSE Y

\* Integer quotient rounded toward zero (C's conversion and division rule).
TDivAt[n \in Int, m \in Int] == Sgn(n) * Sgn(m) * (Abs(n) \div Abs(m))

TDiv(x, d) == TDivAt[x, d]

\* x * y of two fixed-point values: TDiv(x*y, SCALE), computed by parts
\* (integer and fractional part of each factor) so that no intermediate
\* exceeds the result's range.
MulAt[p \in Int, q \in Int] ==
  Sgn(p) * Sgn(q)
    * ( (Abs(p) \div SCALE) * (Abs(q) \div SCALE) * SCALE
        + (Abs(p) \div SCALE) * (Abs(q) % SCALE)
        + (Abs(p) % SCALE) * (Abs(q) \div SCALE)
        + (((Abs(p) % SCALE) * (Abs(q) % SCALE)) \div SCALE) )

Mul(x, y) == MulAt[x, y]

\* x / y of two fixed-point values: TDiv(x*SCALE, y), computed by parts.
DivAt[p \in Int, q \in Int] ==
  Sgn(p) * Sgn(q)
    * ( (Abs(p) \div Abs(q)) * SCALE + (((Abs(p) % Abs(q)) * SCALE) \div Abs(q)) )

Div(x, y) == DivAt[x, y]

\* An integer literal n of the source (2, 2.0, 6.0), as a long double.
Real(n) == n * SCALE

\* (int) x
ToInt(x) == TDiv(x, SCALE)

\* pi and pi/2 at the model's resolution.
PiFx == (31416 * SCALE) \div 10000

HalfPiFx == PiFx \div 2

\* The argument of sinl/cosl brought into (-pi, pi].
ReduceAt[r \in Int] == IF r > PiFx THEN r - 2 * PiFx ELSE r

Reduce(x) == ReduceAt[x % (2 * PiFx)]

\* An angle of (-pi, pi] reflected into [-pi/2, pi/2]: sin keeps its value,
\* cos changes sign when the angle is reflected.
Fold(r) == IF r > HalfPiFx THEN PiFx - r ELSE IF r < -HalfPiFx THEN -PiFx - r ELSE r

\* x*(1 - x^2/6*(1 - x^2/20*(1 - x^2/42))): the series of sin to x^7.
SinAt[v \in Int, x2 \in Int] ==
  Mul(v, SCALE - Mul(TDiv(x2, 6), SCALE - Mul(TDiv(x2, 20), SCALE - TDiv(x2, 42))))

SinPoly(x) == SinAt[x, Mul(x, x)]

\* 1 - x^2/2*(1 - x^2/12*(1 - x^2/30*(1 - x^2/56))): the series of cos to x^8.
CosAt[x2 \in Int] ==
  SCALE - Mul(TDiv(x2, 2),
              SCALE - Mul(TDiv(x2, 12),
                          SCALE - Mul(TDiv(x2, 30), SCALE - TDiv(x2, 56))))

CosPoly(x) == CosAt[Mul(x, x)]

SinlAt[r \in Int] == SinPoly(Fold(r))

sinl(x) == SinlAt[Reduce(x)]

CoslAt[r \in Int] == IF Fold(r) = r THEN CosPoly(r) ELSE -CosPoly(Fold(r))

cosl(x) == CoslAt[Reduce(x)]

\* pow(x, 2)
PowAt[v \in Int] == Mul(v, v)

pow2(x) == PowAt[x]

(* ------------------------------------------------------------------ *)
(* Program constants                                                   *)
(* ------------------------------------------------------------------ *)

\* #define G 9.78 (Earth), in fixed point.
G == 97800

\* #define DT 0.01, in fixed point.
DT == 100

SCREEN_WIDTH == 1000

SCREEN_HEIGHT == 800

\* Trail capacity.  The source sets 1024; the ring is modelled at a small
\* capacity so that it fills and wraps within the explored runs.
TRAIL_SIZE == 3

\* The tick loop of main() runs until SDL_QUIT; runs are explored up to
\* this many iterations.
MaxTicks == 6

\* Number of appendToTrail calls explored when the Trail is driven alone.
MaxAppends == 7

(* ------------------------------------------------------------------ *)
(* Data                                                                *)
(* ------------------------------------------------------------------ *)

\* typedef struct Body: l, m, t, w (the Color field is presentation only
\* and is read by nothing but the SDL draw calls).
Body(l, m, t, w) == [l |-> l, m |-> m, t |-> t, w |-> w]

\* SDL_FPoint
FPoint(px, py) == [x |-> px, y |-> py]

\* long double v[4], indexed 0..3 as in the source.
Vec4(p, q, r, s) == (0 :> p) @@ (1 :> q) @@ (2 :> r) @@ (3 :> s)

\* The values of a Body, a long double[4], an SDL_FPoint and a Trail.
BodyT == [l : Int, m : Int, t : Int, w : Int]

VecT == [0..3 -> Int]

PointT == [x : Int, y : Int]

TrailT == [idx : Int, n_elements : Int, points : [0..(TRAIL_SIZE - 1) -> PointT]]

\* The objects an evaluator call leaves behind; one recorded evaluator call
\* (the objects passed in and the objects after it); what updatePositions
\* and draw leave behind.
EvalT == [a : BodyT, b : BodyT, k : VecT, y : VecT]

CallT == [a : BodyT, b : BodyT, y : VecT, post : EvalT]

StepT == [a : BodyT, b : BodyT, calls : Seq(CallT)]

DrawT == [a : BodyT, b : BodyT, t : TrailT, tip : PointT, shown : Int]

\* Trail t1 = {.n_elements = 0, .idx = 0, ...}: the members not named by the
\* initializer (points[]) are zero-initialized.
EmptyTrail ==
  [idx |-> 0, n_elements |-> 0, points |-> [s \in 0..(TRAIL_SIZE - 1) |-> FPoint(0, 0)]]

(* ------------------------------------------------------------------ *)
(* Trail                                                               *)
(* ------------------------------------------------------------------ *)

\* appendToTrail with the count incremented past the capacity (no MIN).
appendToTrail_NoMin(t, pt) ==
  [[[t EXCEPT !.points[t.idx] = pt, !.idx = @ + 1]
       EXCEPT !.idx = @ % TRAIL_SIZE]
       EXCEPT !.n_elements = @ + 1]

\* appendToTrail with the cursor wrapped one slot early.
appendToTrail_ShortWrap(t, pt) ==
  [[[t EXCEPT !.points[t.idx] = pt, !.idx = @ + 1]
       EXCEPT !.idx = @ % (TRAIL_SIZE - 1)]
       EXCEPT !.n_elements = MIN(@ + 1, TRAIL_SIZE)]

\* appendToTrail with the cursor never wrapped.
appendToTrail_NoWrap(t, pt) ==
  [[t EXCEPT !.points[t.idx] = pt, !.idx = @ + 1]
      EXCEPT !.n_elements = MIN(@ + 1, TRAIL_SIZE)]

\* void appendToTrail(Trail *t, SDL_FPoint pt): *t after the call.
\*   t->points[t->idx++] = pt;  t->idx %= TRAIL_SIZE;
\*   t->n_elements = MIN(t->n_elements + 1, TRAIL_SIZE);
appendToTrail(t, pt) ==
  [[[t EXCEPT !.points[t.idx] = pt, !.idx = @ + 1]
       EXCEPT !.idx = @ % TRAIL_SIZE]
       EXCEPT !.n_elements = MIN(@ + 1, TRAIL_SIZE)]

\* What draw() hands to SDL_RenderDrawPointsF: points[0 .. n_elements-1].
Rendered(t) == {t.points[s] : s \in 0..(t.n_elements - 1)}

(* ------------------------------------------------------------------ *)
(* Energy diagnostics                                                  *)
(* ------------------------------------------------------------------ *)

\* long double y1 = -a->l * cosl(a->t);
PotentialY1(a) == Mul(-a.l, cosl(a.t))

\* The Bodies after getPotential and the value it returns, y1 bound.
PotentialAt[a \in BodyT, b \in BodyT, y1 \in Int] ==
  [a |-> a, b |-> b,
   ret |-> Mul(Mul(a.m, G), y1) + Mul(Mul(b.m, G), y1 - Mul(b.l, cosl(b.t)))]

\* long double getPotential(Body *a, Body *b)
getPotential(a, b) == PotentialAt[a, b, PotentialY1(a)]

\* The Bodies after getKinetic and the value it returns, av2 and bv2 bound.
KineticAt[a \in BodyT, b \in BodyT, av2 \in Int, bv2 \in Int] ==
  [a |-> a, b |-> b,
   ret |-> Mul(Mul(Real(1) \div 2, a.m), av2)
           + Mul(Mul(Real(1) \div 2, b.m),
                 av2 + bv2
                 + Mul(Mul(Mul(Mul(Mul(Real(2), a.l), b.l), a.w), b.w), cosl(a.t - b.t)))]

\* long double getKinetic(Body *a, Body *b)
getKinetic(a, b) == KineticAt[a, b, pow2(Mul(a.l, a.w)), pow2(Mul(b.l, b.w))]

(* ------------------------------------------------------------------ *)
(* Equation-of-motion evaluator                                        *)
(* ------------------------------------------------------------------ *)

b_a(a, b) == Div(b.l, a.l)

a_b(a, b) == Div(a.l, b.l)

total_mass(a, b) == a.m + b.m

accel_1(a, b, y) == Mul(Mul(b_a(a, b), Div(b.m, total_mass(a, b))), cosl(y[0] - y[1]))

accel_2(a, b, y) == Mul(a_b(a, b), cosl(y[0] - y[1]))

\* force_1 with cosl for sinl in the gravity term.
force_1_Cos(a, b, y) ==
  Mul(Mul(Mul(-b_a(a, b), Div(b.m, total_mass(a, b))), Mul(y[3], y[3])), sinl(y[0] - y[1]))
  - Mul(Div(G, a.l), cosl(y[0]))

force_1(a, b, y) ==
  Mul(Mul(Mul(-b_a(a, b), Div(b.m, total_mass(a, b))), Mul(y[3], y[3])), sinl(y[0] - y[1]))
  - Mul(Div(G, a.l), sinl(y[0]))

\* force_2 with the sign of the gravity term flipped.
force_2_Sign(a, b, y) ==
  Mul(Mul(a_b(a, b), Mul(a.w, a.w)), sinl(y[0] - y[1]))
  + Mul(Div(G, b.l), sinl(y[1]))

force_2(a, b, y) ==
  Mul(Mul(a_b(a, b), Mul(a.w, a.w)), sinl(y[0] - y[1]))
  - Mul(Div(G, b.l), sinl(y[1]))

\* g1, g2 and the stores to k[0..3], with the four locals bound.
Solve[a \in BodyT, b \in BodyT, y \in VecT, f1 \in Int, f2 \in Int, c1 \in Int, c2 \in Int] ==
  [a |-> a, b |-> b, y |-> y,
   k |-> Vec4(y[2], y[3],
              Div(f1 - Mul(c1, f2), Real(1) - Mul(c1, c2)),
              Div(f2 - Mul(c2, f1), Real(1) - Mul(c1, c2)))]

LagrangeAt[a \in BodyT, b \in BodyT, y \in VecT] ==
  Solve[a, b, y, force_1(a, b, y), force_2(a, b, y), accel_1(a, b, y), accel_2(a, b, y)]

\* lagrange that also stores y[2] into a->w.
lagrange_WritesBody(a, b, k, y) == [LagrangeAt[a, b, y] EXCEPT !.a.w = y[2]]

\* void lagrange(Body *a, Body *b, long double *k, long double *y): the four
\* pointed-to objects after the call.  k[] is written and never read.
lagrange(a, b, k, y) == LagrangeAt[a, b, y]

(* ------------------------------------------------------------------ *)
(* RK4 integrator                                                      *)
(* ------------------------------------------------------------------ *)

\* The content of k1[4] .. k4[4] before lagrange writes it.
Unwritten == Vec4(0, 0, 0, 0)

\* One evaluator call as it is recorded: the objects passed in (a, b, y)
\* and the objects after the call (post).
Call(a, b, y, post) == [a |-> a, b |-> b, y |-> y, post |-> post]

\* The half step taken with the whole DT.
HalfStep_Full(y, k) ==
  Vec4(y[0] + Mul(DT, k[0]), y[1] + Mul(DT, k[1]),
       y[2] + Mul(DT, k[2]), y[3] + Mul(DT, k[3]))

\* tmp[j] = y[j] + DT * k[j] / 2, j = 0..3
HalfStep(y, k) ==
  Vec4(y[0] + Div(Mul(DT, k[0]), Real(2)), y[1] + Div(Mul(DT, k[1]), Real(2)),
       y[2] + Div(Mul(DT, k[2]), Real(2)), y[3] + Div(Mul(DT, k[3]), Real(2)))

\* tmp[j] = y[j] + DT * k[j], j = 0..3
FullStep(y, k) ==
  Vec4(y[0] + Mul(DT, k[0]), y[1] + Mul(DT, k[1]),
       y[2] + Mul(DT, k[2]), y[3] + Mul(DT, k[3]))

\* 1.0 / 6.0 * DT * (k1 + 2.0 * k2 + 2.0 * k3 + k4), left to right
Weighted(ka, kb, kc, kd) ==
  Mul(Mul(Div(Real(1), Real(6)), DT), ka + Mul(Real(2), kb) + Mul(Real(2), kc) + kd)

\* Lines 135-138: a->t += ..., b->t += ..., a->w += ..., b->w += ..., with
\* r1 .. r4 the objects after the first .. fourth lagrange call (a0, b0 are
\* the Bodies at entry, kept for the record of the calls).
Advance[a0 \in BodyT, b0 \in BodyT, r1 \in EvalT, r2 \in EvalT, r3 \in EvalT, r4 \in EvalT] ==
  [a |-> [r4.a EXCEPT
            !.t = @ + Weighted(r1.k[0], r2.k[0], r3.k[0], r4.k[0]),
            !.w = @ + Weighted(r1.k[2], r2.k[2], r3.k[2], r4.k[2])],
   b |-> [r4.b EXCEPT
            !.t = @ + Weighted(r1.k[1], r2.k[1], r3.k[1], r4.k[1]),
            !.w = @ + Weighted(r1.k[3], r2.k[3], r3.k[3], r4.k[3])],
   calls |-> << Call(a0, b0, Vec4(a0.t, b0.t, a0.w, b0.w), r1),
                Call(r1.a, r1.b, HalfStep(r1.y, r1.k), r2),
                Call(r2.a, r2.b, HalfStep(r1.y, r2.k), r3),
                Call(r3.a, r3.b, FullStep(r1.y, r3.k), r4) >>]

\* Lines 129-133: tmp = y + DT*k3; lagrange(a, b, k4, tmp)
Stage4[a0 \in BodyT, b0 \in BodyT, r1 \in EvalT, r2 \in EvalT, r3 \in EvalT] ==
  Advance[a0, b0, r1, r2, r3, lagrange(r3.a, r3.b, Unwritten, FullStep(r1.y, r3.k))]

\* Lines 123-127: tmp = y + DT*k2/2; lagrange(a, b, k3, tmp)
Stage3[a0 \in BodyT, b0 \in BodyT, r1 \in EvalT, r2 \in EvalT] ==
  Stage4[a0, b0, r1, r2, lagrange(r2.a, r2.b, Unwritten, HalfStep(r1.y, r2.k))]

\* Lines 117-121: tmp = y + DT*k1/2; lagrange(a, b, k2, tmp)
Stage2[a0 \in BodyT, b0 \in BodyT, r1 \in EvalT] ==
  Stage3[a0, b0, r1, lagrange(r1.a, r1.b, Unwritten, HalfStep(r1.y, r1.k))]

\* updatePositions that also reads main()'s iteration counter.
updatePositions_ReadsCounter(a, b) ==
  [Stage2[a, b, lagrange(a, b, Unwritten, Vec4(a.t, b.t, a.w, b.w))]
     EXCEPT !.a.t = @ + i]

\* void updatePositions(Body *a, Body *b): the Bodies after the call, and the
\* evaluator calls made, in order.  The local y[] = {a->t, b->t, a->w, b->w}
\* is passed to the first call only (it is the y of r1 afterwards); the
\* later calls receive tmp[].
updatePositions(a, b) ==
  Stage2[a, b, lagrange(a, b, Unwritten, Vec4(a.t, b.t, a.w, b.w))]

(* ------------------------------------------------------------------ *)
(* draw                                                                *)
(* ------------------------------------------------------------------ *)

\* int size = 0.8 * MIN(SCREEN_WIDTH / 2, SCREEN_HEIGHT / 2);
Size == ToInt(Mul((8 * SCALE) \div 10, Real(MIN(SCREEN_WIDTH \div 2, SCREEN_HEIGHT \div 2))))

\* long double length_a = size * (a->l / total_len), and length_b
length_a(a, b) == Mul(Real(Size), Div(a.l, a.l + b.l))

length_b(a, b) == Mul(Real(Size), Div(b.l, a.l + b.l))

\* int ax = cx + (int)length_a * sinl(a->t);  int ay = cy + (int)length_a * cosl(a->t);
ax(a, b) == ToInt(Real(SCREEN_WIDTH \div 2) + ToInt(length_a(a, b)) * sinl(a.t))

ay(a, b) == ToInt(Real(SCREEN_HEIGHT \div 2) + ToInt(length_a(a, b)) * cosl(a.t))

\* int bx = ax + (int)length_b * sinl(b->t);  int by = ay + (int)length_b * cosl(b->t);
bx(a, b) == ToInt(Real(ax(a, b)) + ToInt(length_b(a, b)) * sinl(b.t))

by(a, b) == ToInt(Real(ay(a, b)) + ToInt(length_b(a, b)) * cosl(b.t))

\* SDL_FPoint tip = {.x = bx, .y = by};
Tip(a, b) == FPoint(bx(a, b), by(a, b))

\* The objects after draw, with tip and the Trail after the append bound.
Drawn[a \in BodyT, b \in BodyT, tip \in PointT, after \in TrailT] ==
  [a |-> a, b |-> b, t |-> after, tip |-> tip, shown |-> after.n_elements]

DrawAt[a \in BodyT, b \in BodyT, t \in TrailT, tip \in PointT] ==
  Drawn[a, b, tip, appendToTrail(t, tip)]

\* void draw(SDL_Renderer *, Body *a, Body *b, Trail *t): the objects after
\* the call, the tip appended, and how many points are handed to
\* SDL_RenderDrawPointsF.
draw(a, b, t) == DrawAt[a, b, t, Tip(a, b)]

(* ------------------------------------------------------------------ *)
(* main                                                                *)
(* ------------------------------------------------------------------ *)

\* What one iteration leaves behind, from what its two calls left behind.
\* trace lists the functions of this file entered, in order.
Iterated[u \in StepT, d \in DrawT] ==
  [a |-> d.a, b |-> d.b, t |-> d.t, calls |-> u.calls, tip |-> d.tip,
   trace |-> <<"updatePositions">>
             \o [n \in 1..Len(u.calls) |-> "lagrange"]
             \o <<"draw", "appendToTrail">>]

ThenDraw[u \in StepT, t \in TrailT] == Iterated[u, draw(u.a, u.b, t)]

\* The iteration with draw before updatePositions.
DrawnFirst[u \in StepT, d \in DrawT] ==
  [a |-> u.a, b |-> u.b, t |-> d.t, calls |-> u.calls, tip |-> d.tip,
   trace |-> <<"draw", "appendToTrail", "updatePositions">>
             \o [n \in 1..Len(u.calls) |-> "lagrange"]]

Iteration_DrawFirst(a, b, t) == DrawnFirst[updatePositions(a, b), draw(a, b, t)]

\* One iteration of the while loop of main() after the event poll:
\* updatePositions(&a1, &b1); draw(renderer, &a1, &b1, &t1).
Iteration(a, b, t) == ThenDraw[updatePositions(a, b), t]

\* Caller-supplied physical parameters and initial conditions: all valid
\* (length > 0, mass > 0).  main() itself uses l = m = 1, t = 1.8 / 1.0, w = 0.
Lengths == {Real(1), Real(2)}

Masses == {Real(1), Real(2)}

Angles == {0, Real(1), (18 * SCALE) \div 10}

Velocities == {0, SCALE \div 2}

Bodies == [l : Lengths, m : Masses, t : Angles, w : Velocities]

InitMain(A, B) ==
  /\ a1 \in A
  /\ b1 \in B
  /\ t1 = EmptyTrail
  /\ i = 0
  /\ quit = FALSE
  /\ pc = "loop"
  /\ calls = << >>
  /\ trace = << >>
  /\ appended = << >>
  /\ written = {}
  /\ start = [a |-> a1, b |-> b1]
  /\ last = "init"

Init ==
  /\ InitMain(Bodies, Bodies)
  /\ vec_y = Unwritten /\ vec_k = Unwritten /\ ret = 0
  /\ a2 = a1 /\ b2 = b1 /\ i2 = 0

\* One pass of the while loop: the event poll may set quit (ev), then the
\* step and the draw run, then i++.
Tick ==
  /\ pc = "loop"
  /\ ~quit
  /\ i < MaxTicks
  /\ \E ev \in BOOLEAN, r \in {Iteration(a1, b1, t1)} :
           /\ quit' = ev
           /\ a1' = r.a
           /\ b1' = r.b
           /\ t1' = r.t
           /\ calls' = r.calls
           /\ trace' = r.trace
           /\ appended' = Append(appended, r.tip)
           /\ written' = written \cup {t1.idx}
           /\ i' = i + 1
           /\ last' = "iteration"
  /\ UNCHANGED << pc, start, unitVars, pairVars >>

\* while (!quit) fails: cleanup and return 0.
Exit ==
  /\ pc = "loop"
  /\ quit
  /\ pc' = "done"
  /\ last' = "exit"
  /\ UNCHANGED << a1, b1, t1, i, quit, calls, trace, appended, written, start,
                  unitVars, pairVars >>

Next == Tick \/ Exit

Spec == Init /\ [][Next]_vars

(* ------------------------------------------------------------------ *)
(* The Trail driven alone: any sequence of appends of any points       *)
(* ------------------------------------------------------------------ *)

\* main()'s own Bodies (lines 204-214).
MainA == Body(Real(1), Real(1), (18 * SCALE) \div 10, 0)

MainB == Body(Real(1), Real(1), Real(1), 0)

\* The points offered to the n-th append: one never appended before, and
\* one that repeats.
Points(n) == {FPoint(n, 1), FPoint(0, 0)}

InitTrail ==
  /\ InitMain({MainA}, {MainB})
  /\ vec_y = Unwritten /\ vec_k = Unwritten /\ ret = 0
  /\ a2 = a1 /\ b2 = b1 /\ i2 = 0

AppendPoint ==
  /\ Len(appended) < MaxAppends
  /\ \E pt \in Points(Len(appended) + 1) :
       /\ t1' = appendToTrail(t1, pt)
       /\ appended' = Append(appended, pt)
  /\ written' = written \cup {t1.idx}
  /\ last' = "appendToTrail"
  /\ UNCHANGED << a1, b1, i, quit, pc, calls, trace, start, unitVars, pairVars >>

NextTrail == AppendPoint

SpecTrail == InitTrail /\ [][NextTrail]_vars

(* ------------------------------------------------------------------ *)
(* The evaluator and the diagnostics driven directly, beside the loop  *)
(* ------------------------------------------------------------------ *)

UnitBodies == [l : {Real(1)}, m : {Real(1), Real(2)}, t : {Real(1)}, w : {0, SCALE \div 2}]

UnitVectors == { Vec4(p, 0, r, SCALE \div 2) : p \in {0, Real(1)}, r \in {0, Real(1)} }

\* Iterations of the loop explored beside the direct calls.
UnitTicks == 2

InitUnit ==
  /\ InitMain(UnitBodies, UnitBodies)
  /\ vec_y \in UnitVectors
  /\ vec_k = Unwritten
  /\ ret = 0
  /\ a2 = a1 /\ b2 = b1 /\ i2 = 0

\* lagrange(&a1, &b1, vec_k, vec_y)
CallLagrange ==
  /\ \E r \in {lagrange(a1, b1, vec_k, vec_y)} :
       /\ a1' = r.a
       /\ b1' = r.b
       /\ vec_k' = r.k
       /\ vec_y' = r.y
  /\ last' = "lagrange"
  /\ UNCHANGED << t1, i, quit, pc, calls, trace, appended, written, start, ret, pairVars >>

\* ret = getPotential(&a1, &b1)
CallGetPotential ==
  /\ \E r \in {getPotential(a1, b1)} :
       /\ a1' = r.a
       /\ b1' = r.b
       /\ ret' = r.ret
  /\ last' = "getPotential"
  /\ UNCHANGED << t1, i, quit, pc, calls, trace, appended, written, start, vec_y, vec_k, pairVars >>

\* ret = getKinetic(&a1, &b1)
CallGetKinetic ==
  /\ \E r \in {getKinetic(a1, b1)} :
       /\ a1' = r.a
       /\ b1' = r.b
       /\ ret' = r.ret
  /\ last' = "getKinetic"
  /\ UNCHANGED << t1, i, quit, pc, calls, trace, appended, written, start, vec_y, vec_k, pairVars >>

UnitTick == i < UnitTicks /\ Tick

NextUnit == UnitTick \/ Exit \/ CallLagrange \/ CallGetPotential \/ CallGetKinetic

SpecUnit == InitUnit /\ [][NextUnit]_vars

(* ------------------------------------------------------------------ *)
(* Two runs of the integrator from the same state                      *)
(* ------------------------------------------------------------------ *)

PairBodies == [l : {Real(1), Real(2)}, m : {Real(1)}, t : Angles, w : {0}]

InitPair ==
  /\ InitMain(PairBodies, PairBodies)
  /\ vec_y = Unwritten /\ vec_k = Unwritten /\ ret = 0
  /\ a2 = a1 /\ b2 = b1 /\ i2 = 0

\* updatePositions(&a2, &b2) (line 252), stepping the second run on its own.
Tick2 ==
  /\ i2 < MaxTicks
  /\ \E u \in {updatePositions(a2, b2)} :
       /\ a2' = u.a
       /\ b2' = u.b
  /\ i2' = i2 + 1
  /\ last' = "second"
  /\ UNCHANGED << mainVars, unitVars >>

NextPair == Tick \/ Exit \/ Tick2

SpecPair == InitPair /\ [][NextPair]_vars

(* ================================================================== *)
(* Properties                                                          *)
(* ================================================================== *)

Zero4 == Vec4(0, 0, 0, 0)

\* The p-th from last appended point (p = 1 is the last one).
FromLast(p) == appended[Len(appended) - p + 1]

AllDistinct == \A m, n \in 1..Len(appended) : m # n => appended[m] # appended[n]

AtRest(a, b) == a.t = 0 /\ b.t = 0 /\ a.w = 0 /\ b.w = 0

\* C1: the evaluator computes k from the y passed in alone: for every
\* evaluator call of a step, with lengths, masses and y fixed, the k it
\* returns is the same whatever the Body's angular velocity field holds
\* (in particular the omega_A of force_2 is the y[2] of that call).
C1_EvaluatorReadsOnlyY ==
  \A j \in 1..Len(calls) :
    \A w \in Velocities \cup {calls[j].y[2]} :
      lagrange([calls[j].a EXCEPT !.w = w], calls[j].b, Unwritten, calls[j].y).k
        = calls[j].post.k

\* C2: after N appends to a Trail that started empty, n_elements (the length
\* handed to the renderer) is N if N < TRAIL_SIZE and TRAIL_SIZE otherwise;
\* and when all appended points are distinct, the TRAIL_SIZE-th from last is
\* among the rendered points and the (TRAIL_SIZE+1)-th from last is not.
C2_TrailCapacity ==
  /\ t1.n_elements = (IF Len(appended) < TRAIL_SIZE THEN Len(appended) ELSE TRAIL_SIZE)
  /\ AllDistinct =>
       /\ Len(appended) >= TRAIL_SIZE => FromLast(TRAIL_SIZE) \in Rendered(t1)
       /\ Len(appended) >= TRAIL_SIZE + 1 => FromLast(TRAIL_SIZE + 1) \notin Rendered(t1)

C2_Witness ==
  /\ Len(appended) >= TRAIL_SIZE + 2
  /\ AllDistinct
  /\ last = "appendToTrail"

\* C3: every append writes the point at the slot the cursor pointed to before
\* the call (and no other slot), advances the cursor by one modulo the
\* capacity, and increments the count unless it equals the capacity; the
\* count never exceeds the capacity; and once the count equals the capacity,
\* the slot overwritten holds the oldest retained point.
C3_AppendContract ==
  /\ [](t1.n_elements <= TRAIL_SIZE)
  /\ [][ appended' # appended =>
           /\ Len(appended') = Len(appended) + 1
           /\ t1'.points = [t1.points EXCEPT ![t1.idx] = appended'[Len(appended')]]
           /\ t1'.idx = (t1.idx + 1) % TRAIL_SIZE
           /\ t1'.n_elements =
                (IF t1.n_elements = TRAIL_SIZE THEN TRAIL_SIZE ELSE t1.n_elements + 1)
           /\ t1.n_elements = TRAIL_SIZE => t1.points[t1.idx] = FromLast(TRAIL_SIZE)
       ]_vars

C3_Witness ==
  /\ Len(appended) >= TRAIL_SIZE + 2
  /\ t1.n_elements = TRAIL_SIZE
  /\ t1.points[(t1.idx + TRAIL_SIZE - 1) % TRAIL_SIZE] = FromLast(1)
  /\ FromLast(1) # FromLast(TRAIL_SIZE + 1)

\* The state vector the claims speak of, and classical RK4 written from its
\* definition, with f the evaluator applied with the Bodies as they are at
\* entry.  The products are taken in the order the source takes them
\* (DT * k / 2, and 1.0 / 6.0 * DT * sum), since the arithmetic rounds.
StateVector(a, b) == [j \in 0..3 |-> IF j = 0 THEN a.t ELSE IF j = 1 THEN b.t
                                      ELSE IF j = 2 THEN a.w ELSE b.w]

RK4_f(a, b, yy) == lagrange(a, b, Unwritten, yy).k

RK4_half(yy, kk) == [j \in 0..3 |-> yy[j] + TDiv(Mul(DT, kk[j]), 2)]

RK4_full(yy, kk) == [j \in 0..3 |-> yy[j] + Mul(DT, kk[j])]

RK4_y1(a, b) == StateVector(a, b)

RK4_k1(a, b) == RK4_f(a, b, RK4_y1(a, b))

RK4_y2(a, b) == RK4_half(RK4_y1(a, b), RK4_k1(a, b))

RK4_k2(a, b) == RK4_f(a, b, RK4_y2(a, b))

RK4_y3(a, b) == RK4_half(RK4_y1(a, b), RK4_k2(a, b))

RK4_k3(a, b) == RK4_f(a, b, RK4_y3(a, b))

RK4_y4(a, b) == RK4_full(RK4_y1(a, b), RK4_k3(a, b))

RK4_k4(a, b) == RK4_f(a, b, RK4_y4(a, b))

RK4_next(a, b) ==
  [j \in 0..3 |->
     RK4_y1(a, b)[j]
     + Mul(Mul(Div(Real(1), Real(6)), DT),
           RK4_k1(a, b)[j] + 2 * RK4_k2(a, b)[j] + 2 * RK4_k3(a, b)[j] + RK4_k4(a, b)[j])]

\* C4: one updatePositions call is one classical RK4 step on
\* y = (theta_A, theta_B, omega_A, omega_B) read from the Bodies at entry: it
\* makes exactly four evaluator calls, on y, y + dt/2*k1, y + dt/2*k2 and
\* y + dt*k3 in this order, every one of them sees the Bodies as they were at
\* entry, and then the Bodies' angle and angular velocity are
\* y + dt/6*(k1 + 2*k2 + 2*k3 + k4), lengths and masses unchanged.
C4_StepIsRK4 ==
  [][ i' = i + 1 =>
        /\ Len(calls') = 4
        /\ \A j \in 1..4 : calls'[j].a = a1 /\ calls'[j].b = b1
        /\ \A j \in 1..4 : calls'[j].post.a = a1 /\ calls'[j].post.b = b1
        /\ calls'[1].y = RK4_y1(a1, b1) /\ calls'[1].post.k = RK4_k1(a1, b1)
        /\ calls'[2].y = RK4_y2(a1, b1) /\ calls'[2].post.k = RK4_k2(a1, b1)
        /\ calls'[3].y = RK4_y3(a1, b1) /\ calls'[3].post.k = RK4_k3(a1, b1)
        /\ calls'[4].y = RK4_y4(a1, b1) /\ calls'[4].post.k = RK4_k4(a1, b1)
        /\ StateVector(a1', b1') = RK4_next(a1, b1)
        /\ a1'.l = a1.l /\ a1'.m = a1.m /\ b1'.l = b1.l /\ b1'.m = b1.m
    ]_vars

C4_Witness ==
  /\ i >= 2
  /\ Len(calls) = 4
  /\ calls[2].y # calls[1].y
  /\ calls[4].y # calls[3].y
  /\ calls[4].post.k # calls[1].post.k
  /\ StateVector(a1, b1) # calls[1].y

\* C5: rest equilibrium: started with both angles and both angular velocities
\* 0 (any valid lengths and masses), every evaluator call returns the zero
\* derivative vector and after any number of steps the Bodies' angle and
\* angular velocity are still exactly 0.
C5_RestEquilibrium ==
  AtRest(start.a, start.b) =>
    /\ AtRest(a1, b1)
    /\ \A j \in 1..Len(calls) : calls[j].y = Zero4 /\ calls[j].post.k = Zero4

C5_Witness ==
  /\ AtRest(start.a, start.b)
  /\ start.a.l # start.b.l
  /\ start.a.m # start.b.m
  /\ i >= 3
  /\ Len(calls) = 4

\* C6 as stated: with Bodies of identical length, mass, initial angle and
\* initial angular velocity, force_1 = force_2 and accel_1 = accel_2 in every
\* evaluator call of every tick.
C6_SymmetricAsStated ==
  start.a = start.b =>
    \A j \in 1..Len(calls) :
      /\ force_1(calls[j].a, calls[j].b, calls[j].y)
           = force_2(calls[j].a, calls[j].b, calls[j].y)
      /\ accel_1(calls[j].a, calls[j].b, calls[j].y)
           = accel_2(calls[j].a, calls[j].b, calls[j].y)

\* C6 amended: in every evaluator call with Bodies of identical length and
\* mass whose y has theta_A = theta_B, force_1 = force_2, while accel_2 is
\* twice accel_1 (massFrac = 1/2), so accel_1 # accel_2.
C6_SymmetricAmended ==
  \A j \in 1..Len(calls) :
    (/\ calls[j].a.l = calls[j].b.l
     /\ calls[j].a.m = calls[j].b.m
     /\ calls[j].y[0] = calls[j].y[1]) =>
      /\ force_1(calls[j].a, calls[j].b, calls[j].y)
           = force_2(calls[j].a, calls[j].b, calls[j].y)
      /\ accel_2(calls[j].a, calls[j].b, calls[j].y)
           = 2 * accel_1(calls[j].a, calls[j].b, calls[j].y)
      /\ accel_1(calls[j].a, calls[j].b, calls[j].y)
           # accel_2(calls[j].a, calls[j].b, calls[j].y)

C6_Witness ==
  /\ start.a = start.b
  /\ Len(calls) = 4
  /\ calls[1].y[0] = calls[1].y[1]
  /\ calls[1].y[0] # 0
  /\ calls[1].y[2] # 0
  /\ force_1(calls[1].a, calls[1].b, calls[1].y) # 0

\* C7: lagrange, getPotential and getKinetic have no side effects: each
\* leaves length, mass, angle and angular velocity of both Bodies unchanged;
\* lagrange leaves its input y unchanged and writes only k; the diagnostics
\* write nothing but their return value; and an iteration of the tick loop
\* (its integration step included) enters neither diagnostic, while its
\* evaluator calls leave the Bodies and their y as passed.
C7_NoSideEffects ==
  [][ /\ last' \in {"lagrange", "getPotential", "getKinetic"} =>
           /\ a1' = a1 /\ b1' = b1 /\ vec_y' = vec_y
           /\ t1' = t1 /\ i' = i /\ quit' = quit
      /\ last' = "lagrange" => ret' = ret
      /\ last' \in {"getPotential", "getKinetic"} => vec_k' = vec_k
      /\ last' = "iteration" =>
           /\ \A j \in 1..Len(trace') : trace'[j] \notin {"getPotential", "getKinetic"}
           /\ \A j \in 1..Len(calls') :
                /\ calls'[j].post.a = calls'[j].a
                /\ calls'[j].post.b = calls'[j].b
                /\ calls'[j].post.y = calls'[j].y
    ]_vars

C7_Witness ==
  /\ last = "lagrange"
  /\ vec_k # Unwritten
  /\ ret # 0
  /\ vec_y[2] # a1.w
  /\ i >= 1

C9_TickAppendsOnce ==
  /\ [](Len(appended) = i /\ t1.n_elements = MIN(i, TRAIL_SIZE))
  /\ [][ /\ t1'.n_elements >= t1.n_elements
         /\ (t1' # t1 \/ appended' # appended) => i' = i + 1
         /\ i' = i + 1 =>
              /\ trace' = << "updatePositions", "lagrange", "lagrange", "lagrange",
                             "lagrange", "draw", "appendToTrail" >>
              /\ a1' = updatePositions(a1, b1).a
              /\ b1' = updatePositions(a1, b1).b
              /\ appended' = Append(appended, Tip(a1', b1'))
              /\ t1' = appendToTrail(t1, Tip(a1', b1'))
       ]_vars

C9_Witness ==
  /\ i >= TRAIL_SIZE + 2
  /\ t1.n_elements = TRAIL_SIZE
  /\ FromLast(1) # FromLast(2)
  /\ FromLast(1) = Tip(a1, b1)

\* C10: in every reachable state of a Trail that started with idx = 0 and
\* n_elements = 0: 0 <= idx < TRAIL_SIZE, idx is the number of appends modulo
\* TRAIL_SIZE, idx = n_elements while n_elements < TRAIL_SIZE, and every slot
\* of the rendered prefix points[0 .. n_elements-1] has been written by an
\* append.
C10_CursorInBounds ==
  /\ t1.idx \in 0..(TRAIL_SIZE - 1)
  /\ t1.idx = Len(appended) % TRAIL_SIZE
  /\ t1.n_elements < TRAIL_SIZE => t1.idx = t1.n_elements
  /\ \A s \in 0..(t1.n_elements - 1) : s \in written

C10_Witness ==
  /\ Len(appended) >= TRAIL_SIZE + 1
  /\ t1.idx = 1
  /\ written = 0..(TRAIL_SIZE - 1)

====
